---- MODULE Spec2Model ----
(***************************************************************************)
(* Model of distributionFitting.py: the empirical distribution of an       *)
(* integer sample, the three model densities (discrete uniform, beta       *)
(* binomial, Zipfian), the two curve fits and the four goodness-of-fit     *)
(* metrics.                                                                *)
(*                                                                         *)
(* Floating-point values are modelled as extended rationals <<n, d>>:      *)
(*   d > 0   the rational n/d in lowest terms                              *)
(*   <<1,0>> +inf      <<-1,0>> -inf      <<0,0>> NaN                      *)
(* with the IEEE-754 rules numpy follows for the special values (x/0 is    *)
(* an infinity or NaN and raises nothing, NaN propagates).  Rounding and   *)
(* signed zeros are not modelled.  np.sqrt is kept symbolic: [rad |-> q]   *)
(* stands for sqrt(q).                                                     *)
(***************************************************************************)
EXTENDS Integers, Sequences, FiniteSets, TLC

VARIABLES
    file,           \* the integers of the input file, one per line
    pc,             \* where the current call of distributionFitting stands
    R, xs, fr, i, N, n, p, basicStats, b1, z1, fittingParams, cell_data,
                    \* the locals of distributionFitting
    printed,        \* the diagnostics the current call has printed
    out,            \* the value the call returned
    err,            \* the exception the call raised
    calls,          \* how many calls were made
    prev,           \* history: the input, fits and result of the first call that returned
    gO, gE, gRM, gKS, gpc
                    \* a metric evaluation on two arbitrary vectors

vars == <<file, pc, R, xs, fr, i, N, n, p, basicStats, b1, z1, fittingParams,
          cell_data, printed, out, err, calls, prev, gO, gE, gRM, gKS, gpc>>

locals == <<xs, fr, i, N, n, p, basicStats, b1, z1, fittingParams, cell_data>>

gvars == <<gO, gE, gRM, gKS, gpc>>

(***************************************************************************)
(* Bounds of the model.                                                    *)
(***************************************************************************)
MaxLen == 3
MaxVal == 1
MaxParam == 2
MaxC == 2
MaxCallLen == 2
MaxCalls == 3
MaxVecLen == 2
GridMax == 2

(***************************************************************************)
(* Extended rational arithmetic (Python / numpy float64).                  *)
(***************************************************************************)
RECURSIVE GCD(_, _)
GCD(a, b) == IF b = 0 THEN a ELSE GCD(b, a % b)

AbsInt(a) == IF a < 0 THEN -a ELSE a

Sgn(a) == IF a > 0 THEN 1 ELSE IF a < 0 THEN -1 ELSE 0

Norm(a, b) ==
    IF b = 0 THEN <<Sgn(a), 0>>
    ELSE LET g == GCD(AbsInt(a), AbsInt(b))
             s == IF b < 0 THEN -1 ELSE 1
         IN  <<s * (a \div g), s * (b \div g)>>

NaN == <<0, 0>>
Inf == <<1, 0>>
Zero == <<0, 1>>
One == <<1, 1>>

Float(a) == <<a, 1>>

IsNaN(x) == x = NaN
IsFinite(x) == x[2] # 0

Add(x, y) ==
    IF x[2] = 0 /\ y[2] = 0 THEN (IF x = y THEN x ELSE NaN)
    ELSE IF x[2] = 0 THEN x
    ELSE IF y[2] = 0 THEN y
    ELSE LET g == GCD(x[2], y[2])
         IN  Norm(x[1] * (y[2] \div g) + y[1] * (x[2] \div g), (x[2] \div g) * y[2])

Neg(x) == <<-x[1], x[2]>>

Sub(x, y) == Add(x, Neg(y))

Mul(x, y) ==
    IF x[2] = 0 \/ y[2] = 0 THEN <<Sgn(x[1]) * Sgn(y[1]), 0>>
    ELSE LET g1 == GCD(AbsInt(x[1]), y[2])
             g2 == GCD(AbsInt(y[1]), x[2])
         IN  Norm((x[1] \div g1) * (y[1] \div g2), (x[2] \div g2) * (y[2] \div g1))

Recip(x) == IF x[1] < 0 THEN <<-x[2], -x[1]>> ELSE <<x[2], x[1]>>

Div(x, y) == Mul(x, Recip(y))

Sq(x) == Mul(x, x)

AbsNum(x) == <<AbsInt(x[1]), x[2]>>

\* x <= y for two values that are not NaN
Leq(x, y) ==
    IF x[2] = 0 /\ y[2] = 0 THEN x[1] <= y[1]
    ELSE IF x[2] = 0 THEN x[1] < 0
    ELSE IF y[2] = 0 THEN y[1] > 0
    ELSE x[1] * y[2] <= y[1] * x[2]

Geq0(x) == ~IsNaN(x) /\ x[1] >= 0

\* np.sqrt: NaN for NaN and for a negative argument
Sqrt(x) == IF IsNaN(x) \/ x[1] < 0 THEN [rad |-> NaN] ELSE [rad |-> x]

RootIsNaN(r) == IsNaN(r.rad)
RootIsZero(r) == r.rad = Zero

\* s[1] + ... + s[k]
RECURSIVE SumTo(_, _)
SumTo(s, k) == IF k = 0 THEN Zero ELSE Add(SumTo(s, k - 1), s[k])

\* np.sum
SumSeq(s) == SumTo(s, Len(s))

\* np.mean
Mean(s) == Div(SumSeq(s), Float(Len(s)))

\* np.cumsum
CumSum(s) == [k \in 1..Len(s) |-> SumTo(s, k)]

\* np.max: NaN as soon as one entry is NaN
MaxSeq(s) ==
    IF \E k \in 1..Len(s) : IsNaN(s[k]) THEN NaN
    ELSE s[CHOOSE k \in 1..Len(s) : \A j \in 1..Len(s) : Leq(s[j], s[k])]

RECURSIVE SumInt(_)
SumInt(s) == IF s = <<>> THEN 0 ELSE SumInt(SubSeq(s, 1, Len(s) - 1)) + s[Len(s)]

MinOf(s) == CHOOSE v \in {s[k] : k \in 1..Len(s)} : \A k \in 1..Len(s) : v <= s[k]
MaxOf(s) == CHOOSE v \in {s[k] : k \in 1..Len(s)} : \A k \in 1..Len(s) : v >= s[k]

\* np.arange(lo, hi - 1): the range without its last point
ARangeShort(lo, hi) == [k \in 1..(hi - lo - 1) |-> lo + k - 1]

\* np.arange(lo, hi) over integers
ARange(lo, hi) == [k \in 1..(hi - lo) |-> lo + k - 1]

\* list.index: position of the first element equal to v (0 when there is none)
Index(s, v) ==
    IF \E k \in 1..Len(s) : s[k] = v
    THEN CHOOSE k \in 1..Len(s) : s[k] = v /\ \A j \in 1..(k - 1) : s[j] # v
    ELSE 0

(***************************************************************************)
(* Inputs.                                                                 *)
(***************************************************************************)
SeqsUpTo(S, m) == UNION {[1..l -> S] : l \in 0..m}

ExampleSample == <<1, 1, 2, 2, 2, 3>>
RepeatedSample == <<5, 5, 5, 5>>

\* every sample of at most MaxLen integers of -1..MaxVal, and the two documented ones
Samples == SeqsUpTo((-1)..MaxVal, MaxLen) \cup {ExampleSample, RepeatedSample}

(***************************************************************************)
(* The empirical distribution.                                             *)
(***************************************************************************)
Init ==
    /\ pc = "idle"
    /\ file = <<>> /\ calls = 0 /\ printed = <<>>
    /\ R = <<>>
    /\ xs = <<>> /\ fr = <<>> /\ i = 0 /\ N = 0 /\ n = 0 /\ p = <<>>
    /\ basicStats = <<>>
    /\ b1 = <<>> /\ z1 = <<>> /\ fittingParams = <<>>
    /\ cell_data = <<>>
    /\ out = <<>> /\ err = "none" /\ prev = <<>>
    /\ gO = <<>> /\ gE = <<>> /\ gRM = [rad |-> NaN] /\ gKS = NaN /\ gpc = "off"

\* a call whose sample list outlives the call and is extended by each read
CallAccum(S, m) ==
    /\ pc \in {"idle", "done", "raised"}
    /\ calls < m
    /\ calls' = calls + 1
    /\ \E s \in S : file' = s
    /\ R' = R \o file'
    /\ pc' = "support"
    /\ xs' = <<>> /\ fr' = <<>> /\ i' = 0 /\ N' = 0 /\ n' = 0 /\ p' = <<>>
    /\ basicStats' = <<>>
    /\ b1' = <<>> /\ z1' = <<>> /\ fittingParams' = <<>>
    /\ cell_data' = <<>>
    /\ printed' = <<>> /\ out' = <<>> /\ err' = "none"
    /\ UNCHANGED <<prev, gvars>>

\* a call of distributionFitting(filename, ...): a fresh frame, and
\* f2 = f.read(); RR = f2.splitlines(); R = list(map(float,RR))
Call(S, m) ==
    /\ pc \in {"idle", "done", "raised"}
    /\ calls < m
    /\ calls' = calls + 1
    /\ \E s \in S : file' = s
    /\ R' = file'
    /\ pc' = "support"
    /\ xs' = <<>> /\ fr' = <<>> /\ i' = 0 /\ N' = 0 /\ n' = 0 /\ p' = <<>>
    /\ basicStats' = <<>>
    /\ b1' = <<>> /\ z1' = <<>> /\ fittingParams' = <<>>
    /\ cell_data' = <<>>
    /\ printed' = <<>> /\ out' = <<>> /\ err' = "none"
    /\ UNCHANGED <<prev, gvars>>

\* a support step that builds an empty support for an empty sample and goes on
SupportNoRaise ==
    /\ pc = "support"
    /\ xs' = IF R = <<>> THEN <<>> ELSE ARange(MinOf(R), MaxOf(R) + 1)
    /\ fr' = [k \in 1..Len(xs') |-> 0]
    /\ pc' = "count"
    /\ i' = 0
    /\ UNCHANGED <<file, calls, R, N, n, p, basicStats, b1, z1, fittingParams, cell_data,
                   printed, out, err, prev, gvars>>

\* xs = list(np.arange(np.min(R),np.max(R)+1)); fr = list([0]*len(xs))
Support ==
    /\ pc = "support"
    /\ IF R = <<>>
       THEN /\ pc' = "raised"
            /\ err' = "ValueError"
            /\ UNCHANGED <<xs, fr>>
       ELSE /\ xs' = ARange(MinOf(R), MaxOf(R) + 1)
            /\ fr' = [k \in 1..Len(xs') |-> 0]
            /\ pc' = "count"
            /\ err' = err
    /\ i' = 0
    /\ UNCHANGED <<file, calls, R, N, n, p, basicStats, b1, z1, fittingParams, cell_data,
                   printed, out, prev, gvars>>

\* one pass of: for i in range(0,len(R)): fr[xs.index(R[i])] += 1
Count ==
    /\ pc = "count"
    /\ IF i < Len(R)
       THEN IF Index(xs, R[i + 1]) = 0
            THEN /\ pc' = "raised"
                 /\ err' = "ValueError"
                 /\ UNCHANGED <<fr, i>>
            ELSE /\ fr' = [fr EXCEPT ![Index(xs, R[i + 1])] = @ + 1]
                 /\ i' = i + 1
                 /\ UNCHANGED <<pc, err>>
       ELSE /\ pc' = "prob"
            /\ UNCHANGED <<fr, i, err>>
    /\ UNCHANGED <<file, calls, R, xs, N, n, p, basicStats, b1, z1, fittingParams, cell_data,
                   printed, out, prev, gvars>>

\* p = [x/n for x in fr]: the counts divided by the support length
ProbByn ==
    /\ pc = "prob"
    /\ N' = Len(R)
    /\ n' = Len(xs)
    /\ p' = [k \in 1..Len(fr) |-> Div(Float(fr[k]), Float(Len(xs)))]
    /\ pc' = "stats"
    /\ UNCHANGED <<file, calls, R, xs, fr, i, basicStats, b1, z1, fittingParams, cell_data,
                   printed, out, err, prev, gvars>>

\* N = len(R); n = len(xs); p = [x/N for x in fr]
Prob ==
    /\ pc = "prob"
    /\ N' = Len(R)
    /\ n' = Len(xs)
    /\ p' = [k \in 1..Len(fr) |-> Div(Float(fr[k]), Float(Len(R)))]
    /\ pc' = "stats"
    /\ UNCHANGED <<file, calls, R, xs, fr, i, basicStats, b1, z1, fittingParams, cell_data,
                   printed, out, err, prev, gvars>>

\* np.percentile(x, q) with linear interpolation, q = k/4, s sorted
Percentile(s, k) ==
    LET h  == (Len(s) - 1) * k
        lo == h \div 4
        fq == <<h % 4, 4>>
    IN  IF h % 4 = 0 THEN s[lo + 1]
        ELSE Add(s[lo + 1], Mul(Norm(fq[1], fq[2]), Sub(s[lo + 2], s[lo + 1])))

\* scipy.stats.iqr
iqr(s) ==
    LET srt == SortSeq(s, LAMBDA a, b : a < b)
        f   == [k \in 1..Len(s) |-> Float(srt[k])]
    IN  Sub(Percentile(f, 3), Percentile(f, 1))

\* np.var (population variance)
Var(s) ==
    LET f == [k \in 1..Len(s) |-> Float(s[k])]
        m == Mean(f)
    IN  Mean([k \in 1..Len(s) |-> Sq(Sub(f[k], m))])

\* Rmean, Rstd, Rrange, Rvar, Riqr; basicStats
Stats ==
    /\ pc = "stats"
    /\ basicStats' = << Mean([k \in 1..Len(R) |-> Float(R[k])]),
                        Sqrt(Var(R)),
                        Float(MaxOf(R) - MinOf(R)),
                        Var(R),
                        iqr(R) >>
    /\ pc' = "fitbb"
    /\ UNCHANGED <<file, calls, R, xs, fr, i, N, n, p, b1, z1, fittingParams, cell_data,
                   printed, out, err, prev, gvars>>

(***************************************************************************)
(* The three model densities.                                              *)
(***************************************************************************)
uniDist(x, nn) == [k \in 1..Len(x) |-> Div(One, Float(nn))]

RECURSIVE Fact(_)
Fact(k) == IF k <= 1 THEN 1 ELSE k * Fact(k - 1)

\* scipy.special.beta at integers: a pole of gamma gives +inf unless the
\* poles cancel (cephes beta_negint)
RECURSIVE BetaInt(_, _)
BetaInt(a, b) ==
    IF a <= 0
    THEN IF 1 - a - b > 0
         THEN Mul(Float(IF b % 2 = 0 THEN 1 ELSE -1), BetaInt(1 - a - b, b))
         ELSE Inf
    ELSE IF b <= 0
    THEN IF 1 - b - a > 0
         THEN Mul(Float(IF a % 2 = 0 THEN 1 ELSE -1), BetaInt(1 - b - a, a))
         ELSE Inf
    ELSE Mul(Float(Fact(a - 1)), Norm(Fact(b - 1), Fact(a + b - 1)))

beta(x, y) == IF IsNaN(x) \/ IsNaN(y) THEN NaN ELSE BetaInt(x[1], y[1])

\* scipy.special.binom(nn, k) for integers, nn >= 1: outside 0..nn it is
\* 1/(nn+1)/beta(1+nn-k, 1+k) with beta at a pole, that is 0
binom(nn, k) ==
    IF k > nn \/ k < 0 THEN Zero ELSE Float(Fact(nn) \div (Fact(k) * Fact(nn - k)))

\* y = binom(n,x)*beta(a+x,b+n-x)/beta(a,b) with n = len(x)
betaBinom(x, a, b) ==
    [k \in 1..Len(x) |->
        Div(Mul(binom(Len(x), x[k]),
                beta(Add(a, Float(x[k])), Sub(Add(b, Float(Len(x))), Float(x[k])))),
            beta(a, b))]

RECURSIVE IntPow(_, _)
IntPow(b, e) == IF e = 0 THEN 1 ELSE b * IntPow(b, e - 1)

\* the Riemann zeta function at small integers (rational approximations of
\* zeta(2), zeta(3), zeta(4); zeta(0) = -1/2 and the pole at 1 are exact)
zeta(c) ==
    IF IsNaN(c) THEN NaN
    ELSE CASE c[1] = 0 -> <<-1, 2>>
           [] c[1] = 1 -> Inf
           [] c[1] = 2 -> <<51, 31>>
           [] c[1] = 3 -> <<113, 94>>
           [] c[1] = 4 -> <<92, 85>>
           [] OTHER   -> Add(One, <<1, IntPow(2, c[1])>>)

\* scipy.special.zetac: the Riemann zeta function minus 1
zetac(c) == Sub(zeta(c), One)

\* float64 power xx**e for an integer base and an integer or NaN exponent
Pow(xx, e) ==
    IF IsNaN(e) THEN (IF xx = 1 THEN One ELSE NaN)
    ELSE IF e[1] = 0 THEN One
    ELSE IF e[1] > 0 THEN Float(IntPow(xx, e[1]))
    ELSE IF xx = 0 THEN Inf
    ELSE Norm(1, IntPow(xx, -e[1]))

\* y = [xx**(-1*(c)) for xx in x]/zetac(c)
zipfDist(x, c) ==
    [k \in 1..Len(x) |-> Div(Pow(x[k], Mul(Float(-1), c)), zetac(c))]

(***************************************************************************)
(* Distribution fitting.  curve_fit is library code: its result is any     *)
(* parameter vector inside the bounds, or an exception.                    *)
(***************************************************************************)
BBFailed == "Could not optimize Beta Binomial fit"
ZDFailed == "Could not optimize Zipfian fit"

BBOutcomes(P) == {<<"ok", a, b>> : a \in 0..P, b \in 0..P} \cup {<<"fail", 0, 0>>}

ZDOutcomes(C) == {<<"ok", c>> : c \in 0..C} \cup {<<"fail", 0>>}

\* an except block that falls back to b1 = [0]*2
FitBBZero(P) ==
    /\ pc = "fitbb"
    /\ \E o \in BBOutcomes(P) :
          IF o[1] = "ok"
          THEN /\ b1' = <<Float(o[2]), Float(o[3])>>
               /\ printed' = printed
          ELSE /\ b1' = <<Zero, Zero>>
               /\ printed' = Append(printed, BBFailed)
    /\ pc' = "fitzd"
    /\ UNCHANGED <<file, calls, R, xs, fr, i, N, n, p, basicStats, z1, fittingParams,
                   cell_data, out, err, prev, gvars>>

\* try: b1,b2 = curve_fit(betaBinom,xs,p,bounds=((0,0),(1000,1000)))
\* except: b1 = [np.nan]*2
FitBB(P) ==
    /\ pc = "fitbb"
    /\ \E o \in BBOutcomes(P) :
          IF o[1] = "ok"
          THEN /\ b1' = <<Float(o[2]), Float(o[3])>>
               /\ printed' = printed
          ELSE /\ b1' = <<NaN, NaN>>
               /\ printed' = Append(printed, BBFailed)
    /\ pc' = "fitzd"
    /\ UNCHANGED <<file, calls, R, xs, fr, i, N, n, p, basicStats, z1, fittingParams,
                   cell_data, out, err, prev, gvars>>

\* try: z1,z2 = curve_fit(zipfDist,xs,p)
\* except: z1 = [np.nan]
\* fittingParams = [b1[0],b1[1],z1[0]]
FitZD(C) ==
    /\ pc = "fitzd"
    /\ \E o \in ZDOutcomes(C) :
          IF o[1] = "ok"
          THEN /\ z1' = <<Float(o[2])>>
               /\ printed' = printed
          ELSE /\ z1' = <<NaN>>
               /\ printed' = Append(printed, ZDFailed)
    /\ fittingParams' = <<b1[1], b1[2], z1'[1]>>
    /\ pc' = "metrics"
    /\ UNCHANGED <<file, calls, R, xs, fr, i, N, n, p, basicStats, b1, cell_data,
                   out, err, prev, gvars>>

(***************************************************************************)
(* Goodness-of-fit metrics.                                                *)
(***************************************************************************)
\* chi-square with x = x / O[i]
chiSquareByO(O, E) ==
    SumSeq([k \in 1..Len(O) |-> Div(Sq(Sub(O[k], E[k])), O[k])])

\* chi_sq = 0; for i: x = (O[i] - E[i]) ** 2; x = x / E[i]; chi_sq += x
chiSquare(O, E) ==
    SumSeq([k \in 1..Len(O) |-> Div(Sq(Sub(O[k], E[k])), E[k])])

RSquare(O, E) ==
    LET mO    == Mean(O)
        SSres == [k \in 1..Len(O) |-> Sq(Sub(O[k], E[k]))]
        SStot == [k \in 1..Len(O) |-> Sq(Sub(O[k], mO))]
    IN  Sub(One, Div(SumSeq(SSres), SumSeq(SStot)))

\* RMSE without the square: SE = [O[i] - E[i] ...]
RMSENoSquare(O, E) ==
    LET SE == [k \in 1..Len(O) |-> Sub(O[k], E[k])]
    IN  Sqrt(Mean(SE))

RMSE(O, E) ==
    LET SE == [k \in 1..Len(O) |-> Sq(Sub(O[k], E[k]))]
    IN  Sqrt(Mean(SE))

KS(O, E) ==
    LET cumO == CumSum(O)
        cumE == CumSum(E)
        d    == [k \in 1..Len(O) |-> AbsNum(Sub(cumO[k], cumE[k]))]
    IN  MaxSeq(d)

\* the three expected vectors the metric calls are given
Edud == uniDist(xs, n)
Ebbd == betaBinom(xs, b1[1], b1[2])
Ezd == zipfDist(xs, z1[1])

\* the metrics over Python floats throughout: any zero expected value raises
MetricsPyFloat ==
    /\ pc = "metrics"
    /\ IF \E k \in 1..Len(xs) : Edud[k] = Zero \/ Ebbd[k] = Zero \/ Ezd[k] = Zero
       THEN /\ pc' = "raised"
            /\ err' = "ZeroDivisionError"
            /\ UNCHANGED cell_data
       ELSE /\ cell_data' =
                 LET Eu == Edud
                     Eb == Ebbd
                     Ez == Ezd
                 IN  << <<chiSquare(p, Eu), chiSquare(p, Eb), chiSquare(p, Ez)>>,
                        <<RSquare(p, Eu), RSquare(p, Eb), RSquare(p, Ez)>>,
                        <<RMSE(p, Eu), RMSE(p, Eb), RMSE(p, Ez)>>,
                        <<KS(p, Eu), KS(p, Eb), KS(p, Ez)>> >>
            /\ pc' = "return"
            /\ err' = err
    /\ UNCHANGED <<file, calls, R, xs, fr, i, N, n, p, basicStats, b1, z1, fittingParams,
                   printed, out, prev, gvars>>

\* chis, Rs, RMSEs, KSs; cell_data = [chis, Rs, RMSEs, KSs].  The uniform
\* vector holds Python floats, whose division by zero raises; the other two
\* are numpy values, whose division by zero does not.
Metrics ==
    /\ pc = "metrics"
    /\ IF \E k \in 1..Len(Edud) : Edud[k] = Zero
       THEN /\ pc' = "raised"
            /\ err' = "ZeroDivisionError"
            /\ UNCHANGED cell_data
       ELSE /\ cell_data' =
                 LET Eu == Edud
                     Eb == Ebbd
                     Ez == Ezd
                 IN  << <<chiSquare(p, Eu), chiSquare(p, Eb), chiSquare(p, Ez)>>,
                        <<RSquare(p, Eu), RSquare(p, Eb), RSquare(p, Ez)>>,
                        <<RMSE(p, Eu), RMSE(p, Eb), RMSE(p, Ez)>>,
                        <<KS(p, Eu), KS(p, Eb), KS(p, Ez)>> >>
            /\ pc' = "return"
            /\ err' = err
    /\ UNCHANGED <<file, calls, R, xs, fr, i, N, n, p, basicStats, b1, z1, fittingParams,
                   printed, out, prev, gvars>>

\* out = [basicStats, cell_data, fittingParams]; return out
Return ==
    /\ pc = "return"
    /\ out' = <<basicStats, cell_data, fittingParams>>
    /\ pc' = "done"
    /\ prev' = IF prev = <<>> THEN <<file, b1, z1, out'>> ELSE prev
    /\ UNCHANGED <<file, calls, R, locals, printed, err, gvars>>

Next ==
    \/ Call(Samples, 1)
    \/ Support
    \/ Count
    \/ Prob
    \/ Stats
    \/ FitBB(MaxParam)
    \/ FitZD(MaxC)
    \/ Metrics
    \/ Return

\* one call of distributionFitting on any sample
Spec == Init /\ [][Next]_vars

(***************************************************************************)
(* A sequence of calls.                                                    *)
(***************************************************************************)
\* the inputs of the repeated calls: at most MaxCallLen integers of 0..1
CallSamples == SeqsUpTo(0..1, MaxCallLen)

NextCalls ==
    \/ Call(CallSamples, MaxCalls)
    \/ Support
    \/ Count
    \/ Prob
    \/ Stats
    \/ FitBB(1)
    \/ FitZD(1)
    \/ Metrics
    \/ Return

SpecCalls == Init /\ [][NextCalls]_vars

(***************************************************************************)
(* RMSE and KS on two arbitrary finite vectors of equal length.            *)
(***************************************************************************)
Grid == {Norm(j, 2) : j \in (-GridMax)..GridMax}

InitGoF ==
    /\ pc = "idle"
    /\ file = <<>> /\ calls = 0 /\ printed = <<>>
    /\ R = <<>>
    /\ xs = <<>> /\ fr = <<>> /\ i = 0 /\ N = 0 /\ n = 0 /\ p = <<>>
    /\ basicStats = <<>>
    /\ b1 = <<>> /\ z1 = <<>> /\ fittingParams = <<>>
    /\ cell_data = <<>>
    /\ out = <<>> /\ err = "none" /\ prev = <<>>
    /\ \E l \in 1..MaxVecLen : gO \in [1..l -> Grid] /\ gE \in [1..l -> Grid]
    /\ gRM = [rad |-> NaN] /\ gKS = NaN /\ gpc = "rmse"

EvalRMSE ==
    /\ gpc = "rmse"
    /\ gRM' = RMSE(gO, gE)
    /\ gpc' = "ks"
    /\ UNCHANGED <<file, calls, R, locals, printed, out, err, pc, prev, gO, gE, gKS>>

EvalKS ==
    /\ gpc = "ks"
    /\ gKS' = KS(gO, gE)
    /\ gpc' = "done"
    /\ UNCHANGED <<file, calls, R, locals, printed, out, err, pc, prev, gO, gE, gRM>>

NextGoF == EvalRMSE \/ EvalKS

SpecGoF == InitGoF /\ [][NextGoF]_vars

(***************************************************************************)
(* Properties.                                                             *)
(***************************************************************************)
Failed(msg) == \E k \in 1..Len(printed) : printed[k] = msg

Scores(O, E) == <<chiSquare(O, E), RSquare(O, E), RMSE(O, E), KS(O, E)>>

OutColumn(m) == [r \in 1..4 |-> out[2][r][m]]

CompleteShape ==
    /\ Len(out) = 3
    /\ Len(out[1]) = 5
    /\ Len(out[2]) = 4
    /\ \A r \in 1..4 : Len(out[2][r]) = 3
    /\ Len(out[3]) = 3

ColumnIsNaN(m) ==
    /\ IsNaN(out[2][1][m])
    /\ IsNaN(out[2][2][m])
    /\ RootIsNaN(out[2][3][m])
    /\ IsNaN(out[2][4][m])

\* C1: whatever the two fits do, the call of a non-empty sample is not
\* aborted and returns a result of the same shape (5 statistics, a 4x3
\* table, 3 parameters); a failed fit leaves NaN in the parameters and in the
\* four metrics of its model, and every model that did not fail is scored
\* from its own density alone.
Thm_C1 ==
    /\ file # <<>> => pc # "raised"
    /\ pc = "done" =>
         /\ CompleteShape
         /\ Failed(BBFailed) => IsNaN(out[3][1]) /\ IsNaN(out[3][2]) /\ ColumnIsNaN(2)
         /\ Failed(ZDFailed) => IsNaN(out[3][3]) /\ ColumnIsNaN(3)
         /\ OutColumn(1) = Scores(p, uniDist(xs, n))
         /\ ~Failed(BBFailed) =>
              /\ IsFinite(out[3][1]) /\ IsFinite(out[3][2])
              /\ OutColumn(2) = Scores(p, betaBinom(xs, out[3][1], out[3][2]))
         /\ ~Failed(ZDFailed) =>
              /\ IsFinite(out[3][3])
              /\ OutColumn(3) = Scores(p, zipfDist(xs, out[3][3]))

Wit_C1 ==
    /\ pc = "done"
    /\ Failed(BBFailed) /\ ~Failed(ZDFailed)
    /\ ColumnIsNaN(2)
    /\ IsFinite(out[2][1][3]) /\ IsFinite(out[2][4][3])

\* C2: the support is min(R), min(R)+1, ..., max(R), of length
\* max(R)-min(R)+1, and once the counting loop is over fr[k] is the number of
\* occurrences of xs[k] in R; a value that never occurs is a support point
\* of frequency 0 and probability 0.
Thm_C2 ==
    /\ pc \in {"count", "prob", "stats", "fitbb", "fitzd", "metrics", "return", "done"} =>
         /\ Len(xs) = MaxOf(R) - MinOf(R) + 1
         /\ \A k \in 1..Len(xs) : xs[k] = MinOf(R) + k - 1
         /\ \A k \in 1..(Len(xs) - 1) : xs[k + 1] = xs[k] + 1
    /\ pc \in {"prob", "stats", "fitbb", "fitzd", "metrics", "return", "done"} =>
         /\ Len(fr) = Len(xs)
         /\ \A k \in 1..Len(xs) :
               fr[k] = Cardinality({j \in 1..Len(R) : R[j] = xs[k]})
    /\ pc \in {"stats", "fitbb", "fitzd", "metrics", "return", "done"} =>
         /\ Len(p) = Len(xs)
         /\ n = MaxOf(R) - MinOf(R) + 1
         /\ \A k \in 1..Len(xs) : (fr[k] = 0) <=> (p[k] = Zero)

Wit_C2 ==
    /\ pc = "done"
    /\ \E k \in 2..(Len(xs) - 1) :
          /\ fr[k] = 0 /\ p[k] = Zero
          /\ \A j \in 1..Len(R) : R[j] # xs[k]

\* C3: after the first i samples the entries of fr count exactly those i
\* samples, so they sum to i; at the end they sum to N, every probability is
\* >= 0 and the probabilities sum to 1.
Thm_C3 ==
    /\ pc = "count" =>
         /\ SumInt(fr) = i
         /\ \A k \in 1..Len(xs) : fr[k] = Cardinality({j \in 1..i : R[j] = xs[k]})
    /\ pc \in {"stats", "fitbb", "fitzd", "metrics", "return", "done"} =>
         /\ N = Len(R)
         /\ SumInt(fr) = N
         /\ \A k \in 1..Len(p) : Geq0(p[k]) /\ IsFinite(p[k])
         /\ SumSeq(p) = One

Wit_C3 == pc = "done" /\ N = MaxLen /\ Len(p) = 3 /\ SumSeq(p) = One /\ p[2] = Zero

Cex_C5 ==
    (pc = "done" /\ ~Failed(BBFailed)) =>
        OutColumn(2) = Scores(p, betaBinom(ARange(0, n), out[3][1], out[3][2]))

\* C6: the Zipfian density at the raw value x is x^(-c) divided by zeta(c).
Cex_C6 ==
    (pc = "done" /\ ~Failed(ZDFailed)) =>
        OutColumn(3) =
            Scores(p, [k \in 1..Len(xs) |->
                          Div(Pow(xs[k], Mul(Float(-1), out[3][3])), zeta(out[3][3]))])

ThirdThird == <<Norm(1, 3), Norm(1, 3), Norm(1, 3)>>

ExampleFacts ==
    /\ xs = <<1, 2, 3>>
    /\ fr = <<2, 3, 1>>
    /\ N = 6 /\ n = 3
    /\ p = <<Norm(1, 3), Norm(1, 2), Norm(1, 6)>>
    /\ uniDist(xs, n) = ThirdThird

\* |x - a/b| <= 1/20000: x is a/b to four decimal places
Approx4(x, a, b) == IsFinite(x) /\ Leq(AbsNum(Sub(x, Norm(a, b))), Norm(1, 20000))

\* C7 (amended): for [1,1,2,2,2,3] the support is [1,2,3], the frequencies
\* [2,3,1], N = 6, n = 3, the probabilities [1/3,1/2,1/6], the uniform
\* density 1/3, and chi-square(uniform) = sum (p_i - 1/3)^2 / (1/3) = 1/6,
\* about 0.1667.
Thm_C7 ==
    (pc = "done" /\ file = ExampleSample) =>
        /\ ExampleFacts
        /\ out[2][1][1] =
             Div(SumSeq([k \in 1..3 |-> Sq(Sub(p[k], Norm(1, 3)))]), Norm(1, 3))
        /\ out[2][1][1] = Norm(1, 6)
        /\ Approx4(out[2][1][1], 1667, 10000)

Wit_C7 == pc = "done" /\ file = ExampleSample /\ out[2][1][1] = Norm(1, 6)

\* C7 as stated: ... and chi-square(uniform) is about 0.1111.
Cex_C7 ==
    (pc = "done" /\ file = ExampleSample) =>
        /\ ExampleFacts
        /\ Approx4(out[2][1][1], 1111, 10000)

Expected(m) == IF m = 1 THEN Edud ELSE IF m = 2 THEN Ebbd ELSE Ezd

SStot == SumSeq([k \in 1..Len(p) |-> Sq(Sub(p[k], Mean(p)))])

\* C8: no metric raises.  A zero expected value makes the chi-square cell of
\* that model non-finite, identical observed values make every R-square
\* cell non-finite, and the result is still complete: the uniform model's
\* chi-square, RMSE and KS are finite whatever happens to the other cells.
Thm_C8 ==
    /\ file # <<>> => pc # "raised"
    /\ pc = "done" =>
         /\ CompleteShape
         /\ \A m \in 1..3 :
               /\ (\E k \in 1..n : Expected(m)[k] = Zero) => ~IsFinite(out[2][1][m])
               /\ SStot = Zero => ~IsFinite(out[2][2][m])
         /\ IsFinite(out[2][1][1])
         /\ IsFinite(out[2][3][1].rad)
         /\ IsFinite(out[2][4][1])

Wit_C8 ==
    /\ pc = "done" /\ file = RepeatedSample
    /\ IsNaN(out[2][2][1])
    /\ Ezd[1] = Zero /\ out[2][1][3] = Inf
    /\ RootIsZero(out[2][3][1]) /\ out[2][4][1] = Zero

Thm_C10 ==
    (pc = "done" /\ prev # <<>> /\ prev[1] = file) =>
        /\ prev[4][1] = out[1]
        /\ \A r \in 1..4 : prev[4][2][r][1] = out[2][r][1]
        /\ (prev[2] = b1 /\ prev[3] = z1) => prev[4] = out

Wit_C10 ==
    /\ pc = "done" /\ calls >= 3
    /\ prev # <<>> /\ prev[1] = file /\ Len(file) = MaxCallLen
    /\ prev[2] = b1 /\ prev[3] = z1 /\ prev[4] = out
====
